---- MODULE Spec2Model ----
(***************************************************************************)
(* Order and payment-session lifecycle of the storefront: the checkout     *)
(* form (src/components/Checkout.tsx), the payment page of                 *)
(* src/pages/Payment.tsx and the later payment page (second half of        *)
(* unnamed/part_000), all of them browser code working directly on the     *)
(* orders table, the order_items table, the payment-proofs bucket and the  *)
(* send-order-emails function.                                             *)
(*                                                                         *)
(* Time is counted in minutes.  `now` is the reference clock (the store's   *)
(* clock); the browser that runs the checkout, whose clock stamps          *)
(* payment_expires_at, agrees with it.  Page 1 is the /payment route of    *)
(* that browser's tab: it reads the same clock and the same localStorage,  *)
(* and it is mounted only while the checkout (on the / route) is not.      *)
(* Page 2 is opened on another device: its clock is now + pg[2].skew and   *)
(* its localStorage holds no order_token.                                  *)
(***************************************************************************)
EXTENDS Integers, Sequences, FiniteSets, TLC

\* ---------------------------------------------------------------- bounds
MaxOrders == 2
MaxUploads == 2

\* ------------------------------------------------------ program constants
\* paymentExpiresAt.setMinutes(getMinutes() + 5)
GraceMinutes == 5
\* file.size > 5 * 1024 * 1024, in MiB
MaxFileMiB == 5

\* the instants at which the clock is read: an order created at 0 is seen
\* before, at and after its deadline
Instants == {0, GraceMinutes - 1, GraceMinutes, GraceMinutes + 1}

Pages == {1, 2}
Skews == {-1, 0, 1}
Variants == {"later", "tsx"}

None == << >>
Some(x) == << x >>
IsSome(o) == o # << >>
Val(o) == o[1]

\* ------------------------------------------------------------------ inputs
Buyers ==
  { [name |-> "A", email |-> "a@x.com", phone |-> "1", address |-> "addr"] }

Methods == {"cash", "online"}

\* a file: MIME type <<major, minor>>, size in MiB, name split at the dots
GoodFile == [type |-> <<"image", "png">>, size |-> 5, name |-> <<"proof", "png">>]
TextFile == [type |-> <<"text", "plain">>, size |-> 1, name |-> <<"note", "txt">>]
BigFile == [type |-> <<"image", "jpeg">>, size |-> 6, name |-> <<"photo", "jpg">>]
Files == {GoodFile, TextFile, BigFile}

Outcomes == {"ok", "error"}
\* fetch() and sendOrderEmails(): the promise resolves (with whatever status
\* the function answered) or rejects (the call throws at the await)
FetchOutcomes == {"resolves", "throws"}
\* an awaited store request inside the try of an upload handler: answered
\* without error, answered with an error result, or rejected (the await throws)
AwaitOutcomes == Outcomes \cup {"throws"}

VARIABLES
  now,          \* reference clock, minutes
  orders,       \* table orders: sequence of rows, id = index
  order_items,  \* table order_items: ids of the orders whose items were inserted
  blobs,        \* bucket payment-proofs: the objects stored, each with its
                \* path, the file sent and the upload call that stored it
  emails,       \* bodies of the requests made to send-order-emails, in order
  localStorage, \* localStorage['order_token']
  co,           \* the Checkout component
  pg,           \* pg[p]: a Payment page instance
  uploads       \* number of uploadProof calls started

vars == << now, orders, order_items, blobs, emails, localStorage, co, pg,
           uploads >>

\* --------------------------------------------------------------- the store
\* the order_token the table gives a new row (a column default): a value no
\* earlier row holds, and no row's id
IssueToken(rows) == << "token", Len(rows) + 1 >>

\* the client supplies the token itself, the same one for every order
NewOrderRowClientToken(form, expiresAt, rows) ==
  [ order_token |-> << "token", 1 >>,
    name |-> form.name, email |-> form.email,
    phone |-> form.phone, address |-> form.address,
    payment_method |-> form.paymentMethod,
    payment_status |-> "pending",
    payment_expires_at |-> expiresAt,
    payment_proof_url |-> None,
    payment_proof_submitted_at |-> None,
    order_confirmed |-> FALSE,
    confirmed_at |-> None ]

\* insert([{...}]) of handleSubmit: the row as the table holds it
NewOrderRow(form, expiresAt, rows) ==
  [ order_token |-> IssueToken(rows),
    name |-> form.name, email |-> form.email,
    phone |-> form.phone, address |-> form.address,
    payment_method |-> form.paymentMethod,
    payment_status |-> "pending",
    payment_expires_at |-> expiresAt,
    payment_proof_url |-> None,
    payment_proof_submitted_at |-> None,
    order_confirmed |-> FALSE,
    confirmed_at |-> None ]

\* the lookup also accepts a row's id
FindByTokenOrId(rows, token) ==
  { i \in 1..Len(rows) : rows[i].order_token = token \/ << "id", i >> = token }

\* .select(...).eq('order_token', token).maybeSingle(): ids of the matching rows
FindByToken(rows, token) ==
  { i \in 1..Len(rows) : rows[i].order_token = token }

\* the columns fetchOrder selects: on the later page, on Payment.tsx
LaterColumns ==
  { "id", "order_token", "payment_expires_at", "payment_status", "name", "email",
    "payment_proof_url", "payment_proof_submitted_at" }

TsxColumns == LaterColumns \cup { "order_confirmed", "confirmed_at" }

SelectColumns(variant) == IF variant = "later" THEN LaterColumns ELSE TsxColumns

\* .select(columns) of row i
SelectView(rows, i, columns) ==
  [ c \in columns |-> IF c = "id" THEN i ELSE rows[i][c] ]

\* ------------------------------------------------------------ the checkout
CoInit ==
  [ pc |-> "form",
    formData |-> [name |-> "", email |-> "", phone |-> "", address |-> "",
                  paymentMethod |-> "cash"],
    loading |-> FALSE, error |-> "", success |-> FALSE, orderToken |-> None,
    expiresAt |-> 0, id |-> 0 ]

PgInit ==
  [ variant |-> "later", skew |-> 0, pc |-> "unmounted", ref |-> None, order |-> None,
    loading |-> TRUE, expired |-> FALSE,
    selectedFile |-> None, uploading |-> FALSE, uploadError |-> "",
    success |-> FALSE, timer |-> FALSE, fetching |-> FALSE, token |-> None,
    reply |-> None, up |-> None ]

\* the empty string, as ?ref= gives it
EmptyRef == Some(<< >>)

\* a value that is neither null nor the empty string: what `||` and `!` test
Truthy(o) == IsSome(o) /\ Val(o) # << >>

\* any ref that is there is used, an empty one too
ResolveTokenEmptyIsPresent(ref, cached) == IF IsSome(ref) THEN ref ELSE cached

\* searchParams.get('ref') || localStorage.getItem('order_token')
ResolveToken(ref, cached) == IF Truthy(ref) THEN ref ELSE cached

\* without a token the page only stops loading: expired is not set
StartFetchNoTokenNotExpired(page, ref, cached) ==
  LET token == ResolveToken(ref, cached) IN
  IF ~IsSome(token)
    THEN [page EXCEPT !.ref = ref, !.loading = FALSE]
    ELSE [page EXCEPT !.ref = ref, !.fetching = TRUE, !.token = token]

\* the fetchOrder effect up to its await
StartFetch(page, ref, cached) ==
  LET token == ResolveToken(ref, cached) IN
  IF ~Truthy(token)
    THEN [page EXCEPT !.ref = ref, !.expired = TRUE, !.loading = FALSE]
    ELSE [page EXCEPT !.ref = ref, !.fetching = TRUE, !.token = token]

Init ==
  /\ now = 0
  /\ orders = << >>
  /\ order_items = {}
  /\ blobs = {}
  /\ emails = << >>
  /\ localStorage = None
  /\ co = CoInit
  /\ pg = [p \in Pages |-> PgInit]
  /\ uploads = 0

\* the passing of time
Tick ==
  /\ \E t \in Instants : t > now
  /\ now' = CHOOSE t \in Instants : t > now /\ \A u \in Instants : u > now => t <= u
  /\ UNCHANGED << orders, order_items, blobs, emails, localStorage, co, pg,
                  uploads >>

\* the grace is added as seconds: in minutes the deadline is the present
CheckoutSubmitGraceInSeconds(buyer, method) ==
  /\ pg[1].pc = "unmounted"
  /\ co.pc = "form"
  /\ ~co.loading
  /\ ~co.success
  /\ Len(orders) < MaxOrders
  /\ co' = [co EXCEPT !.pc = "insert",
                      !.formData = [name |-> buyer.name, email |-> buyer.email,
                                    phone |-> buyer.phone, address |-> buyer.address,
                                    paymentMethod |-> method],
                      !.error = "", !.loading = TRUE,
                      !.expiresAt = now]
  /\ UNCHANGED << now, orders, order_items, blobs, emails, localStorage, pg,
                  uploads >>

\* handleSubmit up to the first await: the form is submitted (the inputs are
\* `required`, the method is one of the two radio buttons)
CheckoutSubmit(buyer, method) ==
  /\ pg[1].pc = "unmounted"
  /\ co.pc = "form"
  /\ ~co.loading
  /\ ~co.success
  /\ Len(orders) < MaxOrders
  /\ co' = [co EXCEPT !.pc = "insert",
                      !.formData = [name |-> buyer.name, email |-> buyer.email,
                                    phone |-> buyer.phone, address |-> buyer.address,
                                    paymentMethod |-> method],
                      !.error = "", !.loading = TRUE,
                      !.expiresAt = now + GraceMinutes]
  /\ UNCHANGED << now, orders, order_items, blobs, emails, localStorage, pg,
                  uploads >>

\* the token is cached as soon as the order row is written, before the items
CheckoutInsertOrderCachesToken(outcome) ==
  /\ co.pc = "insert"
  /\ IF outcome = "error"
       THEN /\ co' = [co EXCEPT !.pc = "form", !.error = "Failed to place order.",
                                !.loading = FALSE, !.expiresAt = 0]
            /\ UNCHANGED << orders, localStorage >>
       ELSE /\ orders' = Append(orders, NewOrderRow(co.formData, co.expiresAt, orders))
            /\ localStorage' = Some(IssueToken(orders))
            /\ co' = [co EXCEPT !.pc = "items", !.id = Len(orders) + 1,
                                !.orderToken = Some(IssueToken(orders))]
  /\ UNCHANGED << now, order_items, blobs, emails, pg, uploads >>

\* the orders insert is answered; handleSubmit runs to the second await
CheckoutInsertOrder(outcome) ==
  /\ co.pc = "insert"
  /\ IF outcome = "error"
       THEN /\ co' = [co EXCEPT !.pc = "form", !.error = "Failed to place order.",
                                !.loading = FALSE, !.expiresAt = 0]
            /\ UNCHANGED orders
       ELSE /\ orders' = Append(orders, NewOrderRow(co.formData, co.expiresAt, orders))
            /\ co' = [co EXCEPT !.pc = "items", !.id = Len(orders) + 1,
                                !.orderToken = Some(IssueToken(orders))]
  /\ UNCHANGED << now, order_items, blobs, emails, localStorage, pg,
                  uploads >>

\* body of the sendOrderEmails call of the cash path
CashMail(id, form) ==
  [ id |-> id, name |-> form.name, email |-> form.email, phone |-> form.phone,
    address |-> form.address, payment_method |-> "cash" ]

\* the result of the order_items insert is not looked at
CheckoutInsertItemsIgnoresError(outcome, mail, v) ==
  /\ co.pc = "items"
  /\ order_items' = IF outcome = "error" THEN order_items
                                          ELSE order_items \cup {co.id}
  /\ IF co.formData.paymentMethod = "cash"
       THEN /\ mail \in FetchOutcomes
            /\ emails' = Append(emails, CashMail(co.id, co.formData))
            /\ co' = [co EXCEPT !.pc = "form", !.success = TRUE,
                                !.loading = FALSE, !.expiresAt = 0, !.id = 0]
            /\ UNCHANGED << localStorage, pg >>
       ELSE /\ localStorage' = co.orderToken
            /\ co' = CoInit
            /\ pg' = [pg EXCEPT ![1] =
                  StartFetch([PgInit EXCEPT !.variant = v, !.pc = "idle"],
                             co.orderToken, co.orderToken)]
            /\ UNCHANGED emails
  /\ UNCHANGED << now, orders, blobs, uploads >>

\* the mail is sent for every order placed, online ones included
CheckoutInsertItemsMailsEveryOrder(outcome, mail, v) ==
  /\ co.pc = "items"
  /\ IF outcome = "error"
       THEN /\ co' = [co EXCEPT !.pc = "form",
                                !.error = "Failed to save order items.",
                                !.loading = FALSE, !.expiresAt = 0, !.id = 0]
            /\ UNCHANGED << order_items, emails, localStorage, pg >>
       ELSE /\ order_items' = order_items \cup {co.id}
            /\ mail \in FetchOutcomes
            /\ emails' = Append(emails, CashMail(co.id, co.formData))
            /\ IF co.formData.paymentMethod = "cash"
                 THEN /\ co' = [co EXCEPT !.pc = "form", !.success = TRUE,
                                          !.loading = FALSE, !.expiresAt = 0,
                                          !.id = 0]
                      /\ UNCHANGED << localStorage, pg >>
                 ELSE /\ localStorage' = co.orderToken
                      /\ co' = CoInit
                      /\ pg' = [pg EXCEPT ![1] =
                            StartFetch([PgInit EXCEPT !.variant = v, !.pc = "idle"],
                                       co.orderToken, co.orderToken)]
  /\ UNCHANGED << now, orders, blobs, uploads >>

\* the order_items insert is answered; handleSubmit runs to its end: the cash
\* path sends the mail without awaiting it, the online path navigates the tab
\* to /payment?ref=<token>, which mounts the payment page (variant v)
CheckoutInsertItems(outcome, mail, v) ==
  /\ co.pc = "items"
  /\ IF outcome = "error"
       THEN /\ co' = [co EXCEPT !.pc = "form",
                                !.error = "Failed to save order items.",
                                !.loading = FALSE, !.expiresAt = 0, !.id = 0]
            /\ UNCHANGED << order_items, emails, localStorage, pg >>
       ELSE /\ order_items' = order_items \cup {co.id}
            /\ IF co.formData.paymentMethod = "cash"
                 THEN /\ mail \in FetchOutcomes
                      /\ emails' = Append(emails, CashMail(co.id, co.formData))
                      /\ co' = [co EXCEPT !.pc = "form", !.success = TRUE,
                                          !.loading = FALSE, !.expiresAt = 0,
                                          !.id = 0]
                      /\ UNCHANGED << localStorage, pg >>
                 ELSE /\ localStorage' = co.orderToken
                      /\ co' = CoInit
                      /\ pg' = [pg EXCEPT ![1] =
                            StartFetch([PgInit EXCEPT !.variant = v, !.pc = "idle"],
                                       co.orderToken, co.orderToken)]
                      /\ UNCHANGED emails
  /\ UNCHANGED << now, orders, blobs, uploads >>

\* an awaited insert of handleSubmit rejects (the request did not get through):
\* the catch block reports it and the finally block clears loading
CheckoutThrows ==
  /\ co.pc \in {"insert", "items"}
  /\ co' = [co EXCEPT !.pc = "form", !.error = "Something went wrong.",
                      !.loading = FALSE, !.expiresAt = 0, !.id = 0]
  /\ UNCHANGED << now, orders, order_items, blobs, emails, localStorage, pg,
                  uploads >>

\* onClose of the success view: the component is closed and opened afresh
CheckoutClose ==
  /\ co.pc = "form"
  /\ co.success
  /\ co' = CoInit
  /\ UNCHANGED << now, orders, order_items, blobs, emails, localStorage, pg,
                  uploads >>

\* ---------------------------------------------- the older checkout component
\* handleSubmit of the older Checkout (unnamed/part_001) up to its await
OldCheckoutSubmit(buyer, method) ==
  /\ pg[1].pc = "unmounted"
  /\ co.pc = "form"
  /\ ~co.loading
  /\ ~co.success
  /\ Len(orders) < MaxOrders
  /\ co' = [co EXCEPT !.pc = "oldinsert",
                      !.formData = [name |-> buyer.name, email |-> buyer.email,
                                    phone |-> buyer.phone, address |-> buyer.address,
                                    paymentMethod |-> method],
                      !.error = "", !.loading = TRUE,
                      !.expiresAt = now + GraceMinutes]
  /\ UNCHANGED << now, orders, order_items, blobs, emails, localStorage, pg,
                  uploads >>

\* the orders insert is answered; the older handleSubmit runs to its end: it
\* saves no line items and sends no mail
OldCheckoutInsert(outcome, v) ==
  /\ co.pc = "oldinsert"
  /\ IF outcome = "error"
       THEN /\ co' = [co EXCEPT !.pc = "form",
                                !.error = "Failed to create order. Please try again.",
                                !.loading = FALSE, !.expiresAt = 0]
            /\ UNCHANGED << orders, localStorage, pg >>
       ELSE /\ orders' = Append(orders, NewOrderRow(co.formData, co.expiresAt, orders))
            /\ IF co.formData.paymentMethod = "cash"
                 THEN /\ co' = [co EXCEPT !.pc = "form", !.success = TRUE,
                                          !.loading = FALSE, !.expiresAt = 0,
                                          !.orderToken = Some(IssueToken(orders))]
                      /\ UNCHANGED << localStorage, pg >>
                 ELSE /\ localStorage' = Some(IssueToken(orders))
                      /\ co' = CoInit
                      /\ pg' = [pg EXCEPT ![1] =
                            StartFetch([PgInit EXCEPT !.variant = v, !.pc = "idle"],
                                       Some(IssueToken(orders)),
                                       Some(IssueToken(orders)))]
  /\ UNCHANGED << now, order_items, blobs, emails, uploads >>

\* the awaited insert of the older handleSubmit rejects: catch, then finally
OldCheckoutThrows ==
  /\ co.pc = "oldinsert"
  /\ co' = [co EXCEPT !.pc = "form",
                      !.error = "An error occurred. Please try again.",
                      !.loading = FALSE, !.expiresAt = 0]
  /\ UNCHANGED << now, orders, order_items, blobs, emails, localStorage, pg,
                  uploads >>

\* ------------------------------------------------------- the checkout form
\* what a buyer may have typed: everything, all but the name, all but the
\* address, nothing
Drafts ==
  Buyers \cup
  { [name |-> "", email |-> "a@x.com", phone |-> "1", address |-> "addr"],
    [name |-> "A", email |-> "a@x.com", phone |-> "1", address |-> ""],
    [name |-> "", email |-> "", phone |-> "", address |-> ""] }

\* handleInputChange and the radio buttons' onChange: the form state follows
\* what is typed and chosen
FormInput(draft, method) ==
  /\ pg[1].pc = "unmounted"
  /\ co.pc = "form"
  /\ ~co.success
  /\ co' = [co EXCEPT !.formData = [name |-> draft.name, email |-> draft.email,
                                    phone |-> draft.phone, address |-> draft.address,
                                    paymentMethod |-> method]]
  /\ co' # co
  /\ UNCHANGED << now, orders, order_items, blobs, emails, localStorage, pg,
                  uploads >>

\* only the name is marked required
RequiredNameOnly(form) == form.name # ""

\* the four inputs are `required`: the browser raises the form's submit event
\* only when none of them is empty
RequiredFilled(form) ==
  form.name # "" /\ form.email # "" /\ form.phone # "" /\ form.address # ""

\* <form onSubmit={handleSubmit}>: the submit button is pressed on the form as
\* it stands
FormSubmit ==
  /\ RequiredFilled(co.formData)
  /\ CheckoutSubmit(co.formData, co.formData.paymentMethod)

\* the same on the older component
OldFormSubmit ==
  /\ RequiredFilled(co.formData)
  /\ OldCheckoutSubmit(co.formData, co.formData.paymentMethod)

\* ------------------------------------------------------- the payment pages
\* new Date() / Date.now() in the browser of page p
ClientNow(p) == now + pg[p].skew

\* localStorage.getItem('order_token') in the browser of page p
CachedToken(p) == IF p = 1 THEN localStorage ELSE None

\* off by one: the deadline instant itself counts as expired
IsExpiredAtResolveInclusive(clock, expiresAt) == clock >= expiresAt

\* new Date() > new Date(data.payment_expires_at)
IsExpiredAtResolve(clock, expiresAt) == clock > expiresAt

\* diff = expiresAt - Date.now(); diff <= 0
IsExpiredAtTimer(clock, expiresAt) == expiresAt - clock <= 0

\* file.type.startsWith('image/')
IsImage(file) == file.type[1] = "image"

\* the ceiling is taken a factor 1024 too high (5 GiB)
TooBigAboveGiB(file) == file.size > MaxFileMiB * 1024

\* file.size > 5 * 1024 * 1024
TooBig(file) == file.size > MaxFileMiB

\* selectedFile.name.split('.').pop()
FileExt(file) == file.name[Len(file.name)]

\* `payment-proofs/${order.order_token}_${Date.now()}.${ext}`
ProofPath(token, stamp, ext) ==
  [dir |-> "payment-proofs", token |-> token, stamp |-> stamp, ext |-> ext]

\* an object is stored in the bucket under the path
Stored(bucket, path) == \E b \in bucket : b.path = path

\* supabase.storage.from('payment-proofs').getPublicUrl(path)
PublicUrl(path) == [bucket |-> "payment-proofs", path |-> path]

\* the update of the later page: .update({...}).eq('id', order.id)
LaterMutation(row, url, at) ==
  [row EXCEPT !.payment_proof_url = Some(url),
              !.payment_proof_submitted_at = Some(at),
              !.payment_status = "paid"]

\* the update also writes payment_status back to its initial value
TsxMutationResetsStatus(row, url, at) ==
  [row EXCEPT !.payment_proof_url = Some(url),
              !.payment_proof_submitted_at = Some(at),
              !.payment_status = "pending",
              !.order_confirmed = TRUE,
              !.confirmed_at = Some(at)]

\* the update of Payment.tsx also marks the order paid
TsxMutationMarksPaid(row, url, at) ==
  [row EXCEPT !.payment_proof_url = Some(url),
              !.payment_proof_submitted_at = Some(at),
              !.payment_status = "paid",
              !.order_confirmed = TRUE,
              !.confirmed_at = Some(at)]

\* the update of Payment.tsx
TsxMutation(row, url, at) ==
  [row EXCEPT !.payment_proof_url = Some(url),
              !.payment_proof_submitted_at = Some(at),
              !.order_confirmed = TRUE,
              !.confirmed_at = Some(at)]

ProofMutation(variant, row, url, at) ==
  IF variant = "later" THEN LaterMutation(row, url, at) ELSE TsxMutation(row, url, at)

\* body of the fetch to send-order-emails
OnlineMail(order) ==
  [ id |-> order.id, order_token |-> order.order_token, name |-> order.name,
    email |-> order.email, payment_method |-> "online" ]

\* what a mounted page renders: the early returns of the component, in order
Screen(page) ==
  IF page.loading THEN "loader"
  ELSE IF page.expired THEN "expired"
  ELSE IF ~IsSome(page.order)
    THEN (IF page.variant = "later" THEN "blank" ELSE "not found")
  ELSE "main"

\* the page shows its main view: not the loader, not the expired view
MainView(p) ==
  /\ pg[p].pc # "unmounted"
  /\ ~pg[p].loading
  /\ ~pg[p].expired
  /\ IsSome(pg[p].order)

\* the upload form is on screen and reachable: Payment.tsx renders it only while
\* order.payment_proof_url is empty; the later page always renders it, under the
\* full-screen success modal once showSuccess is set
UploadFormOffered(p) ==
  /\ MainView(p)
  /\ IF pg[p].variant = "tsx"
       THEN ~IsSome(Val(pg[p].order).payment_proof_url)
       ELSE ~pg[p].success

\* values a buyer can put in ?ref=: nothing, the token of an order, the id of an order
RefInputs ==
  {None} \cup { Some(orders[i].order_token) : i \in 1..Len(orders) }
         \cup { Some(<< "id", i >>) : i \in 1..Len(orders) }

\* the same, and the empty value of a bare ?ref=
RefValues == RefInputs \cup {EmptyRef}

\* the page is loaded at /payment?ref=...; in the checkout's tab this leaves
\* the / route and unmounts the checkout
OpenPage(p, v, ref, sk) ==
  /\ pg[p].pc = "unmounted"
  /\ p = 1 => co.pc = "form" /\ sk = 0
  /\ ref \in RefValues
  /\ pg' = [pg EXCEPT ![p] = StartFetch([PgInit EXCEPT !.variant = v, !.pc = "idle",
                                                        !.skew = sk],
                                        ref, CachedToken(p))]
  /\ co' = IF p = 1 THEN CoInit ELSE co
  /\ UNCHANGED << now, orders, order_items, blobs, emails, localStorage,
                  uploads >>

\* the query string of a mounted page changes (history navigation within the
\* /payment route): the component stays, the fetchOrder effect runs again on
\* the state as it is
ChangeRef(p, ref) ==
  /\ pg[p].pc # "unmounted"
  /\ ~pg[p].fetching
  /\ ref \in RefValues
  /\ ref # pg[p].ref
  /\ pg' = [pg EXCEPT ![p] = StartFetch(pg[p], ref, CachedToken(p))]
  /\ UNCHANGED << now, orders, order_items, blobs, emails, localStorage, co,
                  uploads >>

\* "Back to Home" (href="/"): the page is left
LeavePage(p) ==
  /\ pg[p].pc = "idle"
  /\ ~pg[p].fetching
  /\ pg' = [pg EXCEPT ![p] = PgInit]
  /\ UNCHANGED << now, orders, order_items, blobs, emails, localStorage, co,
                  uploads >>

\* the store answers the select of fetchOrder: { data, error }
FetchAnswer(p, outcome) ==
  /\ pg[p].fetching
  /\ ~IsSome(pg[p].reply)
  /\ LET hits == FindByToken(orders, Val(pg[p].token)) IN
     pg' = [pg EXCEPT ![p].reply =
              Some(IF outcome = "error" THEN [error |-> TRUE, data |-> None]
                   ELSE IF hits = {} THEN [error |-> FALSE, data |-> None]
                   ELSE [error |-> FALSE,
                         data |-> Some(SelectView(orders, CHOOSE i \in hits : TRUE,
                                                 SelectColumns(pg[p].variant)))])]
  /\ UNCHANGED << now, orders, order_items, blobs, emails, localStorage, co,
                  uploads >>

\* a lookup that finds an unexpired order takes the expired flag back
FetchDoneClearsExpired(p) ==
  /\ IsSome(pg[p].reply)
  /\ LET data == Val(pg[p].reply).data
         done == [pg[p] EXCEPT !.fetching = FALSE, !.token = None, !.reply = None,
                               !.loading = FALSE] IN
     IF ~IsSome(data)
       THEN pg' = [pg EXCEPT ![p] = [done EXCEPT !.expired = TRUE]]
       ELSE IF IsExpiredAtResolve(ClientNow(p), Val(data).payment_expires_at)
              THEN pg' = [pg EXCEPT ![p] = [done EXCEPT !.expired = TRUE]]
              ELSE pg' = [pg EXCEPT ![p] = [done EXCEPT !.order = data, !.timer = TRUE,
                                                        !.expired = FALSE]]
  /\ UNCHANGED << now, orders, order_items, blobs, emails, localStorage, co,
                  uploads >>

\* the resolution writes the expiry it finds back to the row
FetchDoneMarksExpired(p) ==
  /\ IsSome(pg[p].reply)
  /\ LET data == Val(pg[p].reply).data
         done == [pg[p] EXCEPT !.fetching = FALSE, !.token = None, !.reply = None,
                               !.loading = FALSE] IN
     IF ~IsSome(data)
       THEN /\ pg' = [pg EXCEPT ![p] = [done EXCEPT !.expired = TRUE]]
            /\ UNCHANGED orders
       ELSE IF IsExpiredAtResolve(ClientNow(p), Val(data).payment_expires_at)
              THEN /\ pg' = [pg EXCEPT ![p] = [done EXCEPT !.expired = TRUE]]
                   /\ orders' = [orders EXCEPT ![Val(data).id].payment_status = "expired"]
              ELSE /\ pg' = [pg EXCEPT ![p] = [done EXCEPT !.order = data, !.timer = TRUE]]
                   /\ UNCHANGED orders
  /\ UNCHANGED << now, order_items, blobs, emails, localStorage, co,
                  uploads >>

\* fetchOrder after its await, to its end
FetchDone(p) ==
  /\ IsSome(pg[p].reply)
  /\ LET data == Val(pg[p].reply).data
         done == [pg[p] EXCEPT !.fetching = FALSE, !.token = None, !.reply = None,
                               !.loading = FALSE] IN
     IF ~IsSome(data)
       THEN pg' = [pg EXCEPT ![p] = [done EXCEPT !.expired = TRUE]]
       ELSE IF IsExpiredAtResolve(ClientNow(p), Val(data).payment_expires_at)
              THEN pg' = [pg EXCEPT ![p] = [done EXCEPT !.expired = TRUE]]
              ELSE pg' = [pg EXCEPT ![p] = [done EXCEPT !.order = data, !.timer = TRUE]]
  /\ UNCHANGED << now, orders, order_items, blobs, emails, localStorage, co,
                  uploads >>

\* the countdown is stopped once the success indicator is shown
TimerFireStopsAfterSuccess(p) ==
  /\ pg[p].pc # "unmounted"
  /\ pg[p].timer
  /\ IF /\ IsExpiredAtTimer(ClientNow(p), Val(pg[p].order).payment_expires_at)
        /\ ~pg[p].success
       THEN pg' = [pg EXCEPT ![p].expired = TRUE, ![p].timer = FALSE]
       ELSE pg' = pg
  /\ UNCHANGED << now, orders, order_items, blobs, emails, localStorage, co,
                  uploads >>

\* one run of the setInterval callback
TimerFire(p) ==
  /\ pg[p].pc # "unmounted"
  /\ pg[p].timer
  /\ IF IsExpiredAtTimer(ClientNow(p), Val(pg[p].order).payment_expires_at)
       THEN pg' = [pg EXCEPT ![p].expired = TRUE, ![p].timer = FALSE]
       ELSE pg' = pg
  /\ UNCHANGED << now, orders, order_items, blobs, emails, localStorage, co,
                  uploads >>

\* onFileChange drops the selection when it turns a file down
LaterFileChangeClears(page, file) ==
  IF ~IsImage(file)
    THEN [page EXCEPT !.uploadError = "Only image files allowed",
                      !.selectedFile = None]
  ELSE IF TooBig(file)
    THEN [page EXCEPT !.uploadError = "Max file size is 5MB",
                      !.selectedFile = None]
  ELSE [page EXCEPT !.selectedFile = Some(file), !.uploadError = ""]

\* onFileChange of the later page
LaterFileChange(page, file) ==
  IF ~IsImage(file) THEN [page EXCEPT !.uploadError = "Only image files allowed"]
  ELSE IF TooBig(file) THEN [page EXCEPT !.uploadError = "Max file size is 5MB"]
  ELSE [page EXCEPT !.selectedFile = Some(file), !.uploadError = ""]

\* handleFileChange of Payment.tsx
TsxFileChange(page, file) ==
  IF TooBig(file)
    THEN [page EXCEPT !.uploadError = "File size must be less than 5MB",
                      !.selectedFile = None]
  ELSE IF ~IsImage(file)
    THEN [page EXCEPT !.uploadError = "Please select an image file",
                      !.selectedFile = None]
  ELSE [page EXCEPT !.selectedFile = Some(file), !.uploadError = ""]

\* the buyer picks a file in the file input
FileChange(p, file) ==
  /\ UploadFormOffered(p)
  /\ pg[p].variant = "tsx" => ~pg[p].uploading
  /\ pg' = [pg EXCEPT ![p] = IF pg[p].variant = "later"
                               THEN LaterFileChange(pg[p], file)
                               ELSE TsxFileChange(pg[p], file)]
  /\ UNCHANGED << now, orders, order_items, blobs, emails, localStorage, co,
                  uploads >>

\* the catch block without the finally block: uploading is left set
UploadFailedKeepsUploading(page) ==
  [page EXCEPT !.pc = "idle", !.up = None,
               !.uploadError = IF page.variant = "later"
                                 THEN "Failed to upload payment proof"
                                 ELSE "Failed to upload payment proof. Please try again."]

\* the catch and finally blocks of the upload handlers
UploadFailed(page) ==
  [page EXCEPT !.pc = "idle", !.uploading = FALSE, !.up = None,
               !.uploadError = IF page.variant = "later"
                                 THEN "Failed to upload payment proof"
                                 ELSE "Failed to upload payment proof. Please try again."]

\* the storage upload overwrites what is stored under the path (upsert)
UploadStartUpsert(p, outcome) ==
  /\ uploads < MaxUploads
  /\ UploadFormOffered(p)
  /\ ~pg[p].uploading
  /\ IsSome(pg[p].selectedFile)
  /\ pg[p].pc = "idle"
  /\ LET order == Val(pg[p].order)
         file == Val(pg[p].selectedFile)
         path == ProofPath(order.order_token, ClientNow(p), FileExt(file))
         failed == outcome = "error" IN
     /\ blobs' = IF failed THEN blobs
                  ELSE { b \in blobs : b.path # path }
                       \cup {[path |-> path, file |-> file, call |-> uploads + 1]}
     /\ IF failed /\ pg[p].variant = "tsx"
          THEN pg' = [pg EXCEPT ![p] = UploadFailed(pg[p])]
          ELSE pg' = [pg EXCEPT ![p].pc = "update", ![p].uploading = TRUE,
                                ![p].uploadError = "",
                                ![p].up = Some([order |-> order, path |-> path,
                                                url |-> PublicUrl(path),
                                                at |-> ClientNow(p)])]
  /\ uploads' = uploads + 1
  /\ UNCHANGED << now, orders, order_items, emails, localStorage, co >>

\* the upload button is disabled only while no file is selected
UploadStartWhileUploading(p, outcome) ==
  /\ uploads < MaxUploads
  /\ UploadFormOffered(p)
  /\ IsSome(pg[p].selectedFile)
  /\ pg[p].pc \in {"idle", "update", "notify"}
  /\ LET order == Val(pg[p].order)
         file == Val(pg[p].selectedFile)
         path == ProofPath(order.order_token, ClientNow(p), FileExt(file))
         threw == outcome = "throws"
         failed == outcome = "error" \/ Stored(blobs, path) IN
     /\ blobs' = IF failed \/ threw THEN blobs
                  ELSE blobs \cup {[path |-> path, file |-> file, call |-> uploads + 1]}
     /\ IF threw \/ (failed /\ pg[p].variant = "tsx")
          THEN pg' = [pg EXCEPT ![p] = UploadFailed(pg[p])]
          ELSE pg' = [pg EXCEPT ![p].pc = "update", ![p].uploading = TRUE,
                                ![p].uploadError = "",
                                ![p].up = Some([order |-> order, path |-> path,
                                                url |-> PublicUrl(path),
                                                at |-> ClientNow(p)])]
  /\ uploads' = uploads + 1
  /\ UNCHANGED << now, orders, order_items, emails, localStorage, co >>

\* uploadProof / handleUploadProof from the click to the order update request:
\* the storage upload is sent and answered (upsert is off: an existing path is
\* an error); the later page does not look at the answer
UploadStart(p, outcome) ==
  /\ uploads < MaxUploads
  /\ UploadFormOffered(p)
  /\ ~pg[p].uploading
  /\ IsSome(pg[p].selectedFile)
  /\ pg[p].pc = "idle"
  /\ LET order == Val(pg[p].order)
         file == Val(pg[p].selectedFile)
         path == ProofPath(order.order_token, ClientNow(p), FileExt(file))
         threw == outcome = "throws"
         failed == outcome = "error" \/ Stored(blobs, path) IN
     /\ blobs' = IF failed \/ threw THEN blobs
                  ELSE blobs \cup {[path |-> path, file |-> file, call |-> uploads + 1]}
     /\ IF threw \/ (failed /\ pg[p].variant = "tsx")
          THEN pg' = [pg EXCEPT ![p] = UploadFailed(pg[p])]
          ELSE pg' = [pg EXCEPT ![p].pc = "update", ![p].uploading = TRUE,
                                ![p].uploadError = "",
                                ![p].up = Some([order |-> order, path |-> path,
                                                url |-> PublicUrl(path),
                                                at |-> ClientNow(p)])]
  /\ uploads' = uploads + 1
  /\ UNCHANGED << now, orders, order_items, emails, localStorage, co >>

\* the notification request is made along with the order update, not after it
OrderUpdateMailsAtOnce(p, outcome) ==
  /\ pg[p].pc = "update"
  /\ LET up == Val(pg[p].up)
         id == up.order.id IN
     /\ orders' = IF outcome = "ok"
                    THEN [orders EXCEPT ![id] =
                            ProofMutation(pg[p].variant, orders[id], up.url, up.at)]
                    ELSE orders
     /\ emails' = IF pg[p].variant = "later" THEN Append(emails, OnlineMail(up.order))
                                              ELSE emails
     /\ IF outcome = "throws"
          THEN pg' = [pg EXCEPT ![p] = UploadFailed(pg[p])]
          ELSE IF pg[p].variant = "later"
          THEN pg' = [pg EXCEPT ![p].pc = "idle", ![p].uploading = FALSE,
                                ![p].up = None,
                                ![p].success = TRUE, ![p].selectedFile = None]
          ELSE IF outcome = "error"
            THEN pg' = [pg EXCEPT ![p] = UploadFailed(pg[p])]
            ELSE pg' = [pg EXCEPT ![p].pc = "idle", ![p].uploading = FALSE,
                                  ![p].up = None,
                                  ![p].success = TRUE, ![p].selectedFile = None,
                                  ![p].timer = TRUE,
                                  ![p].order = Some([up.order EXCEPT
                                      !.payment_proof_url = Some(up.url),
                                      !.payment_proof_submitted_at = Some(up.at),
                                      !.order_confirmed = TRUE,
                                      !.confirmed_at = Some(up.at)])]
  /\ UNCHANGED << now, order_items, blobs, localStorage, co, uploads >>

\* the order update is answered; the handler runs to the notification request
\* (later page) or to its end (Payment.tsx)
OrderUpdate(p, outcome) ==
  /\ pg[p].pc = "update"
  /\ LET up == Val(pg[p].up)
         id == up.order.id IN
     /\ orders' = IF outcome = "ok"
                    THEN [orders EXCEPT ![id] =
                            ProofMutation(pg[p].variant, orders[id], up.url, up.at)]
                    ELSE orders
     /\ IF outcome = "throws"
          THEN pg' = [pg EXCEPT ![p] = UploadFailed(pg[p])]
          ELSE IF pg[p].variant = "later"
          THEN pg' = [pg EXCEPT ![p].pc = "notify"]
          ELSE IF outcome = "error"
            THEN pg' = [pg EXCEPT ![p] = UploadFailed(pg[p])]
            ELSE pg' = [pg EXCEPT ![p].pc = "idle", ![p].uploading = FALSE,
                                  ![p].up = None,
                                  ![p].success = TRUE, ![p].selectedFile = None,
                                  ![p].timer = TRUE,
                                  ![p].order = Some([up.order EXCEPT
                                      !.payment_proof_url = Some(up.url),
                                      !.payment_proof_submitted_at = Some(up.at),
                                      !.order_confirmed = TRUE,
                                      !.confirmed_at = Some(up.at)])]
  /\ UNCHANGED << now, order_items, blobs, emails, localStorage, co,
                  uploads >>

\* the fetch to send-order-emails settles; uploadProof runs to its end
Notify(p, outcome) ==
  /\ pg[p].pc = "notify"
  /\ emails' = Append(emails, OnlineMail(Val(pg[p].up).order))
  /\ IF outcome = "throws"
       THEN pg' = [pg EXCEPT ![p] = UploadFailed(pg[p])]
       ELSE pg' = [pg EXCEPT ![p].pc = "idle", ![p].uploading = FALSE,
                             ![p].up = None,
                             ![p].success = TRUE, ![p].selectedFile = None]
  /\ UNCHANGED << now, orders, order_items, blobs, localStorage, co,
                  uploads >>

\* no other payment page is mounted
Solo(p) == \A q \in Pages \ {p} : pg[q].pc = "unmounted"

\* One order through its whole life, one buyer session at a time: a payment
\* page is opened only while no other page is mounted, the checkout is used
\* only while no page is, and the clock runs.  S: the clock offsets the other
\* device may have; O, F: how the store's and the mail function's answers end.
Sessions(S, O, F) ==
  \/ Tick
  \/ \E b \in Buyers, m \in Methods :
        Solo(1) /\ orders = << >> /\ CheckoutSubmit(b, m)
  \/ \E o \in O : CheckoutInsertOrder(o)
  \/ \E o \in O, m \in F, v \in Variants : CheckoutInsertItems(o, m, v)
  \/ CheckoutClose
  \/ \E p \in Pages, v \in Variants, r \in RefInputs, sk \in S :
        Solo(p) /\ co.pc = "form" /\ OpenPage(p, v, r, sk)
  \/ \E p \in Pages : LeavePage(p)
  \/ \E p \in Pages, o \in O : FetchAnswer(p, o)
  \/ \E p \in Pages : FetchDone(p)
  \/ \E p \in Pages : TimerFire(p)
  \/ \E p \in Pages, f \in Files : FileChange(p, f)
  \/ \E p \in Pages, o \in O : UploadStart(p, o)
  \/ \E p \in Pages, o \in O : OrderUpdate(p, o)
  \/ \E p \in Pages, o \in F : Notify(p, o)

\* all clocks agree
Next == Sessions({0}, Outcomes, FetchOutcomes)

Spec == Init /\ [][Next]_vars

\* the other device's clock may be off by a minute
NextSkew == Sessions(Skews, Outcomes, FetchOutcomes)

SpecSkew == Init /\ [][NextSkew]_vars

\* every request is answered without an error
NextCalm == Sessions({0}, {"ok"}, {"resolves"})

SpecCalm == Init /\ [][NextCalm]_vars

\* Two devices at once on one order: both payment pages may be mounted together
\* and their requests interleave freely.  The clock stands still and no page is
\* left; the other device reads the clock with any of the offsets, so the two
\* calls may or may not read the same Date.now().  With the clock still, no
\* deadline passes and the countdown callback changes nothing: it is left out.
NextRace ==
  \/ \E b \in Buyers, m \in Methods : orders = << >> /\ CheckoutSubmit(b, m)
  \/ \E o \in Outcomes : CheckoutInsertOrder(o)
  \/ \E o \in Outcomes, m \in FetchOutcomes, v \in Variants : CheckoutInsertItems(o, m, v)
  \/ CheckoutClose
  \/ \E p \in Pages, v \in Variants, r \in RefInputs, sk \in Skews : OpenPage(p, v, r, sk)
  \/ \E p \in Pages, o \in Outcomes : FetchAnswer(p, o)
  \/ \E p \in Pages : FetchDone(p)
  \/ \E p \in Pages, f \in Files : FileChange(p, f)
  \/ \E p \in Pages, o \in Outcomes : UploadStart(p, o)
  \/ \E p \in Pages, o \in Outcomes : OrderUpdate(p, o)
  \/ \E p \in Pages, o \in FetchOutcomes : Notify(p, o)

SpecRace == Init /\ [][NextRace]_vars

\* Several orders: the checkout is used up to MaxOrders times, one buyer
\* session at a time; the clock stands still (and the countdown is left out).
NextShop ==
  \/ \E b \in Buyers, m \in Methods : Solo(1) /\ CheckoutSubmit(b, m)
  \/ \E o \in Outcomes : CheckoutInsertOrder(o)
  \/ \E o \in Outcomes, m \in FetchOutcomes, v \in Variants : CheckoutInsertItems(o, m, v)
  \/ CheckoutClose
  \/ \E p \in Pages, v \in Variants, r \in RefInputs :
        Solo(p) /\ co.pc = "form" /\ OpenPage(p, v, r, 0)
  \/ \E p \in Pages : LeavePage(p)
  \/ \E p \in Pages, o \in Outcomes : FetchAnswer(p, o)
  \/ \E p \in Pages : FetchDone(p)
  \/ \E p \in Pages, f \in Files : FileChange(p, f)
  \/ \E p \in Pages, o \in Outcomes : UploadStart(p, o)
  \/ \E p \in Pages, o \in Outcomes : OrderUpdate(p, o)
  \/ \E p \in Pages, o \in FetchOutcomes : Notify(p, o)

SpecShop == Init /\ [][NextShop]_vars

\* One order, placed through either checkout component (the one of
\* components/Checkout.tsx or the older one), then the payment pages as above.
NextCheckouts ==
  \/ Sessions({0}, Outcomes, FetchOutcomes)
  \/ \E b \in Buyers, m \in Methods :
        Solo(1) /\ orders = << >> /\ OldCheckoutSubmit(b, m)
  \/ \E o \in Outcomes, v \in Variants : OldCheckoutInsert(o, v)

SpecCheckouts == Init /\ [][NextCheckouts]_vars

\* The checkout form filled in by hand, completely or not, and submitted on
\* either checkout component; every request is answered without an error.
NextForm ==
  \/ Sessions({0}, {"ok"}, {"resolves"})
  \/ \E d \in Drafts, m \in Methods : Solo(1) /\ FormInput(d, m)
  \/ Solo(1) /\ orders = << >> /\ FormSubmit
  \/ Solo(1) /\ orders = << >> /\ OldFormSubmit
  \/ \E v \in Variants : OldCheckoutInsert("ok", v)

SpecForm == Init /\ [][NextForm]_vars

\* Orders created one after the other, up to MaxOrders of them, through
\* either checkout component; after an online order the payment page opened
\* by the navigation resolves the token and is left again.
NextCreations ==
  \/ Tick
  \/ \E b \in Buyers, m \in Methods : CheckoutSubmit(b, m)
  \/ \E o \in Outcomes : CheckoutInsertOrder(o)
  \/ \E o \in Outcomes, m \in FetchOutcomes, v \in Variants : CheckoutInsertItems(o, m, v)
  \/ CheckoutClose
  \/ \E b \in Buyers, m \in Methods : OldCheckoutSubmit(b, m)
  \/ \E o \in Outcomes, v \in Variants : OldCheckoutInsert(o, v)
  \/ \E o \in Outcomes : FetchAnswer(1, o)
  \/ FetchDone(1)
  \/ LeavePage(1)

SpecCreations == Init /\ [][NextCreations]_vars

\* One order and the payment pages as in the fault-free sessions, with pages
\* also opened at a bare ?ref= (the empty value).
NextRefs ==
  \/ Sessions({0}, {"ok"}, {"resolves"})
  \/ \E p \in Pages, v \in Variants :
        Solo(p) /\ co.pc = "form" /\ OpenPage(p, v, EmptyRef, 0)

SpecRefs == Init /\ [][NextRefs]_vars

\* the ref values a buyer has before them: none, the token in localStorage (the
\* one of the link navigated to), the token the placed view shows
SeenRefs ==
  {None} \cup (IF IsSome(localStorage) THEN {localStorage} ELSE {})
         \cup (IF co.success THEN {co.orderToken} ELSE {})

\* Orders placed one after the other through components/Checkout.tsx, whose
\* inserts may fail, each failure followed by whatever the buyer does next (a
\* retry among it); payment pages are opened with the tokens the buyer was
\* given and answered without errors.  The clock stands still.
NextRetry ==
  \/ \E b \in Buyers, m \in Methods : Solo(1) /\ CheckoutSubmit(b, m)
  \/ \E o \in Outcomes : CheckoutInsertOrder(o)
  \/ \E o \in Outcomes, v \in Variants : CheckoutInsertItems(o, "resolves", v)
  \/ CheckoutClose
  \/ \E p \in Pages, v \in Variants, r \in SeenRefs :
        Solo(p) /\ co.pc = "form" /\ OpenPage(p, v, r, 0)
  \/ \E p \in Pages : LeavePage(p)
  \/ \E p \in Pages : FetchAnswer(p, "ok")
  \/ \E p \in Pages : FetchDone(p)
  \/ \E p \in Pages : FileChange(p, GoodFile)
  \/ \E p \in Pages : UploadStart(p, "ok")
  \/ \E p \in Pages : OrderUpdate(p, "ok")
  \/ \E p \in Pages : Notify(p, "resolves")

SpecRetry == Init /\ [][NextRetry]_vars

\* One order placed without faults, then upload calls on the payment pages in
\* which every awaited request may be answered, answered with an error, or
\* rejected.  The clock stands still (and the countdown is left out).
NextUploads ==
  \/ \E b \in Buyers, m \in Methods :
        Solo(1) /\ orders = << >> /\ CheckoutSubmit(b, m)
  \/ CheckoutInsertOrder("ok")
  \/ \E v \in Variants : CheckoutInsertItems("ok", "resolves", v)
  \/ CheckoutClose
  \/ \E p \in Pages, v \in Variants, r \in RefInputs :
        Solo(p) /\ co.pc = "form" /\ OpenPage(p, v, r, 0)
  \/ \E p \in Pages : LeavePage(p)
  \/ \E p \in Pages : FetchAnswer(p, "ok")
  \/ \E p \in Pages : FetchDone(p)
  \/ \E p \in Pages, f \in Files : FileChange(p, f)
  \/ \E p \in Pages, o \in AwaitOutcomes : UploadStart(p, o)
  \/ \E p \in Pages, o \in AwaitOutcomes : OrderUpdate(p, o)
  \/ \E p \in Pages, o \in FetchOutcomes : Notify(p, o)

SpecUploads == Init /\ [][NextUploads]_vars

\* an awaited request of a checkout handleSubmit settles: it is answered, with
\* or without an error, or it rejects
CheckoutAnswered ==
  \/ \E o \in Outcomes : CheckoutInsertOrder(o)
  \/ \E o \in Outcomes, m \in FetchOutcomes, v \in Variants :
        CheckoutInsertItems(o, m, v)
  \/ CheckoutThrows
  \/ \E o \in Outcomes, v \in Variants : OldCheckoutInsert(o, v)
  \/ OldCheckoutThrows

\* an awaited request of the upload handler of page p settles
UploadAnswered(p) ==
  \/ \E o \in AwaitOutcomes : OrderUpdate(p, o)
  \/ \E o \in FetchOutcomes : Notify(p, o)

\* Both checkouts and both payment pages with every way an awaited request can
\* end; every request that was made settles.
NextReturns ==
  \/ \E b \in Buyers, m \in Methods :
        Solo(1) /\ orders = << >> /\ CheckoutSubmit(b, m)
  \/ \E b \in Buyers, m \in Methods :
        Solo(1) /\ orders = << >> /\ OldCheckoutSubmit(b, m)
  \/ CheckoutAnswered
  \/ CheckoutClose
  \/ \E p \in Pages, v \in Variants, r \in RefInputs :
        Solo(p) /\ co.pc = "form" /\ OpenPage(p, v, r, 0)
  \/ \E p \in Pages : LeavePage(p)
  \/ \E p \in Pages : FetchAnswer(p, "ok")
  \/ \E p \in Pages : FetchDone(p)
  \/ \E p \in Pages, f \in Files : FileChange(p, f)
  \/ \E p \in Pages, o \in AwaitOutcomes : UploadStart(p, o)
  \/ \E p \in Pages : UploadAnswered(p)

SpecReturns ==
  /\ Init /\ [][NextReturns]_vars
  /\ WF_vars(CheckoutAnswered)
  /\ \A p \in Pages : WF_vars(UploadAnswered(p))

\* The fault-free sessions with the interval timers running: while a page is
\* mounted with an order, setInterval keeps calling the countdown callback.
SpecLive == Init /\ [][NextCalm]_vars /\ \A p \in Pages : WF_vars(TimerFire(p))

\* The fault-free sessions, with the query string of a mounted page changing.
NextRefChange ==
  \/ Sessions({0}, {"ok"}, {"resolves"})
  \/ \E p \in Pages, r \in RefInputs : ChangeRef(p, r)

SpecRefChange == Init /\ [][NextRefChange]_vars

\* ==================================================================== claims
\* positions of the notifications dispatched for order id on the proof path
OnlineMails(log, id) ==
  { k \in 1..Len(log) : log[k].payment_method = "online" /\ log[k].id = id }

\* page p has an uploadProof call in flight
InFlight(p) == pg[p].pc \in {"update", "notify"}

\* C1: of two uploadProof calls running concurrently on the same order only one
\* applies the transition: while one call has written the order (paid, its
\* proof URL stored) and is at its notification step, the order update of the
\* other call leaves the row as it is.
C1_RaceOneTransition ==
  [][ \A p \in Pages, q \in Pages :
        ( /\ p # q
          /\ pg[p].pc = "update"
          /\ pg[q].pc = "notify"
          /\ Val(pg[p].up).order.id = Val(pg[q].up).order.id
          /\ orders[Val(pg[q].up).order.id].payment_status = "paid"
          /\ orders[Val(pg[q].up).order.id].payment_proof_url = Some(Val(pg[q].up).url)
          /\ pg'[p].pc # "update" )
        => orders' = orders ]_vars

\* C2: at most one notification is ever dispatched for an online order.
C2_AtMostOneNotification ==
  \A i \in 1..Len(orders) : Cardinality(OnlineMails(emails, i)) <= 1

\* C3: the proof URL and the submission time of an order are write-once: once
\* present, no step changes or clears either of them.
C3_ProofWriteOnce ==
  [][ \A i \in 1..Len(orders) :
        IsSome(orders[i].payment_proof_url) =>
          /\ orders'[i].payment_proof_url = orders[i].payment_proof_url
          /\ orders'[i].payment_proof_submitted_at = orders[i].payment_proof_submitted_at
    ]_vars

\* C4: payment_status starts as pending and only ever moves from pending to
\* paid: every new row is pending, and no step changes the status of a row
\* except from pending to paid.
C4_StatusOnlyPendingToPaid ==
  [][ \A i \in 1..Len(orders') :
        IF i <= Len(orders)
          THEN \/ orders'[i].payment_status = orders[i].payment_status
               \/ /\ orders[i].payment_status = "pending"
                  /\ orders'[i].payment_status = "paid"
          ELSE orders'[i].payment_status = "pending" ]_vars

\* a paid order was written again by the update of the Payment.tsx page
C4_Witness ==
  \E i \in 1..Len(orders) :
    /\ orders[i].payment_status = "paid"
    /\ orders[i].order_confirmed
    /\ \E p \in Pages : /\ pg[p].variant = "tsx" /\ pg[p].success
                        /\ Val(pg[p].order).payment_proof_url = orders[i].payment_proof_url

\* C5: no proof submission takes effect after the deadline: a step that changes
\* the stored order (proof fields or status) happens at a time not after its
\* payment_expires_at.
C5_NoWriteAfterDeadline ==
  [][ \A i \in 1..Len(orders) :
        orders'[i] # orders[i] => now <= orders[i].payment_expires_at ]_vars

\* C6: whatever the offset of the client's clock, a resolution that surfaces an
\* order as an active session happens at a time, on the clock that stamped the
\* deadline, not after payment_expires_at.
C6_ResolveUsesServerClock ==
  [][ \A p \in Pages :
        ( /\ IsSome(pg[p].reply)
          /\ ~IsSome(pg'[p].reply)
          /\ pg'[p].pc # "unmounted"
          /\ IsSome(pg'[p].order)
          /\ pg'[p].order = Val(pg[p].reply).data )
        => now <= Val(pg'[p].order).payment_expires_at ]_vars

\* C7: when the lookup by token found an order, the resolution at a time not
\* after payment_expires_at hands the page the order's view as the store
\* returned it, and at any time strictly after it sets the expired flag and
\* hands over no order, whatever the order's payment_status.
C7_ResolveByDeadline ==
  [][ \A p \in Pages :
        ( /\ IsSome(pg[p].reply)
          /\ ~IsSome(pg'[p].reply)
          /\ pg'[p].pc # "unmounted"
          /\ IsSome(Val(pg[p].reply).data) )
        => LET view == Val(Val(pg[p].reply).data) IN
           IF now <= view.payment_expires_at
             THEN /\ pg'[p].order = Some(view)
                  /\ pg'[p].expired = pg[p].expired
                  /\ ~pg'[p].loading
             ELSE /\ pg'[p].expired
                  /\ pg'[p].order = pg[p].order
                  /\ ~pg'[p].loading ]_vars

\* a page was handed, at the deadline instant, the view of a paid order
C7_Witness ==
  \E p \in Pages :
    /\ MainView(p)
    /\ ~pg[p].fetching
    /\ Val(pg[p].order).payment_status = "paid"
    /\ ClientNow(p) = Val(pg[p].order).payment_expires_at
    /\ pg[p].timer

\* C8: a second submission made after a first one succeeded changes nothing:
\* once the order is paid, no later step changes its payment_proof_url and no
\* second notification is dispatched for it.
C8_SecondSubmitKeepsFirst ==
  [][ \A i \in 1..Len(orders) :
        orders[i].payment_status = "paid" =>
          /\ orders'[i].payment_proof_url = orders[i].payment_proof_url
          /\ Cardinality(OnlineMails(emails', i)) <= 1 ]_vars

\* C9: a submission whose storage upload failed ends there: no call is at its
\* order update or at its notification while the file it sent is not in the
\* bucket.
C9_StopsAfterStorageFailure ==
  \A p \in Pages : InFlight(p) => Stored(blobs, Val(pg[p].up).path)

\* C10: once the call has committed its transition (the order is paid with the
\* URL it stored) and only the notification is outstanding, the call ends in
\* its success outcome, however the notification request ends.
C10_DispatchFailureNotSurfaced ==
  [][ \A p \in Pages :
        ( /\ pg[p].pc = "notify"
          /\ orders[Val(pg[p].up).order.id].payment_status = "paid"
          /\ orders[Val(pg[p].up).order.id].payment_proof_url = Some(Val(pg[p].up).url)
          /\ pg'[p].pc = "idle" )
        => pg'[p].success /\ pg'[p].uploadError = "" ]_vars

\* the notifications in the log sent for order id with payment_method cash
CashMails(log, id) ==
  { k \in 1..Len(log) : log[k].payment_method = "cash" /\ log[k].id = id }

\* C11: whenever the checkout shows its placed view for a cash order, exactly
\* one notification carrying payment_method cash has been dispatched for the
\* order whose token the view shows.
C11_CashPlacedOneNotification ==
  (co.success /\ co.formData.paymentMethod = "cash") =>
     \A i \in FindByToken(orders, Val(co.orderToken)) :
        Cardinality(CashMails(emails, i)) = 1

\* C12: no payment session is ever resolved for a cash order: no payment page
\* holds the view of an order whose payment_method is cash, and every cash
\* order stays pending, without proof fields and without a notification of
\* the proof path.
C12_CashNeverResolved ==
  \A i \in 1..Len(orders) :
     orders[i].payment_method = "cash" =>
       /\ \A p \in Pages : MainView(p) => Val(pg[p].order).id # i
       /\ orders[i].payment_status = "pending"
       /\ ~IsSome(orders[i].payment_proof_url)
       /\ OnlineMails(emails, i) = {}

\* C13: the checkout step that completes the creation of an online order hands
\* over the token of the new row, written to localStorage['order_token'] and
\* carried as ?ref= to the payment page it navigates to, and no step of the
\* checkout on an online order dispatches a notification.
C13_OnlineHandsTokenNoMail ==
  [][ ( /\ co.pc \in {"insert", "items", "oldinsert"}
        /\ co.formData.paymentMethod = "online"
        /\ co' # co )
      => /\ emails' = emails
         /\ (co.pc = "items" /\ order_items' # order_items) =>
               /\ localStorage' = Some(orders[co.id].order_token)
               /\ pg'[1].pc # "unmounted"
               /\ pg'[1].ref = Some(orders[co.id].order_token)
         /\ (co.pc = "oldinsert" /\ orders' # orders) =>
               /\ localStorage' = Some(orders'[Len(orders')].order_token)
               /\ pg'[1].pc # "unmounted"
               /\ pg'[1].ref = Some(orders'[Len(orders')].order_token) ]_vars

\* an online order was just created through components/Checkout.tsx: its items
\* are saved, the payment page is loading it by the token handed over, and
\* nothing was sent
C13_Witness ==
  /\ Len(orders) = 1
  /\ orders[1].payment_method = "online"
  /\ 1 \in order_items
  /\ localStorage = Some(orders[1].order_token)
  /\ pg[1].fetching
  /\ pg[1].ref = Some(orders[1].order_token)
  /\ emails = << >>

\* the page shows the expired view and holds no order
ShowsExpiredOnly(page) ==
  /\ page.pc # "unmounted"
  /\ Screen(page) = "expired"
  /\ ~IsSome(page.order)
  /\ ~page.fetching

\* C14: the resolution ends in one and the same outcome, the expired view with
\* no order held, when the page is opened without any token, when the lookup
\* finds no order for the token, when the lookup ends in an error, and when
\* the order found has its deadline behind it.
C14_ResolveFailuresAlike ==
  [][ \A p \in Pages :
        /\ ( /\ pg[p].pc = "unmounted"
             /\ pg'[p].pc # "unmounted"
             /\ ~IsSome(pg'[p].ref)
             /\ ~IsSome(CachedToken(p)') )
           => ShowsExpiredOnly(pg'[p])
        /\ ( /\ IsSome(pg[p].reply)
             /\ ~IsSome(pg'[p].reply)
             /\ pg'[p].pc # "unmounted"
             /\ \/ Val(pg[p].reply).error
                \/ ~IsSome(Val(pg[p].reply).data)
                \/ now > Val(Val(pg[p].reply).data).payment_expires_at )
           => ShowsExpiredOnly(pg'[p]) ]_vars

\* a page shows the expired view for a token whose order exists and is still
\* within its deadline: the lookup ended in an error
C14_Witness ==
  \E p \in Pages :
    /\ ShowsExpiredOnly(pg[p])
    /\ IsSome(pg[p].ref)
    /\ \E i \in FindByToken(orders, Val(pg[p].ref)) :
          now <= orders[i].payment_expires_at

\* an image of at most 5 MiB
AcceptableFile(file) == file.type[1] = "image" /\ file.size <= MaxFileMiB

\* C15: a file that is no image or is larger than 5 MiB is never taken as the
\* page's selection, and every storage upload that is issued sends a file that
\* is an image of at most 5 MiB.
C15_OnlySmallImagesUploaded ==
  [][ \A p \in Pages :
        /\ IsSome(pg'[p].selectedFile) => AcceptableFile(Val(pg'[p].selectedFile))
        /\ ( /\ uploads' # uploads
             /\ pg[p].pc # "unmounted"
             /\ IsSome(pg[p].selectedFile) )
           => AcceptableFile(Val(pg[p].selectedFile)) ]_vars

\* the later page has turned down a file that is no image and goes on to
\* upload the image selected before it
C15_Witness ==
  \E p \in Pages :
    /\ pg[p].variant = "later"
    /\ pg[p].pc = "idle"
    /\ pg[p].uploadError = "Only image files allowed"
    /\ pg[p].selectedFile = Some(GoodFile)

\* C16: a checkout step in which the orders insert wrote no row, or in which
\* the order_items insert saved no items for the row already written, ends the
\* submission in failure: an error message is set, the placed view is not
\* shown, nothing is sent, localStorage is left alone and the payment page is
\* not opened.
C16_InsertFailureReported ==
  [][ ( /\ co' # co
        /\ \/ co.pc \in {"insert", "oldinsert"} /\ orders' = orders
           \/ co.pc = "items" /\ order_items' = order_items )
      => /\ co'.pc = "form"
         /\ co'.error # ""
         /\ ~co'.success
         /\ ~co'.loading
         /\ emails' = emails
         /\ localStorage' = localStorage
         /\ pg'[1].pc = "unmounted" ]_vars

\* the order row is stored without line items and the checkout shows the
\* failure of the order_items insert
C16_Witness ==
  /\ Len(orders) = 1
  /\ order_items = {}
  /\ co.pc = "form"
  /\ co.error = "Failed to save order items."
  /\ ~co.success
  /\ emails = << >>
  /\ localStorage = None

\* a draft with its four buyer fields non-empty and a recognised payment method
CompleteDraft(name, email, phone, address, method) ==
  /\ name # "" /\ email # "" /\ phone # "" /\ address # ""
  /\ method \in {"cash", "online"}

C18_SuccessMeansStoredProof ==
  [][ \A p \in Pages :
        ( /\ InFlight(p)
          /\ pg'[p].pc = "idle"
          /\ pg'[p].success )
        => /\ orders'[Val(pg[p].up).order.id].payment_proof_url
                = Some(PublicUrl(Val(pg[p].up).path))
           /\ Stored(blobs', Val(pg[p].up).path) ]_vars

\* C19: a submission stamps its deadline as the time it is made plus 5 minutes
\* and the row is inserted with that deadline; a resolution that finds the
\* order 4 minutes after that time hands the page the order's view (pending,
\* as long as no proof was submitted), and one that finds it 6 minutes after
\* that time ends in the expired view.
C19_FiveMinuteWindow ==
  [][ /\ (co.pc = "form" /\ co'.pc \in {"insert", "oldinsert"})
           => co'.expiresAt = now + 5
      /\ Len(orders') > Len(orders)
           => orders'[Len(orders')].payment_expires_at = co.expiresAt
      /\ \A p \in Pages :
           ( /\ IsSome(pg[p].reply)
             /\ ~IsSome(pg'[p].reply)
             /\ pg'[p].pc # "unmounted"
             /\ IsSome(Val(pg[p].reply).data) )
           => LET view == Val(Val(pg[p].reply).data)
                  t == view.payment_expires_at - 5 IN
              /\ now = t + 4 =>
                    /\ Screen(pg'[p]) = "main"
                    /\ pg'[p].order = Some(view)
                    /\ uploads = 0 => view.payment_status = "pending"
              /\ now = t + 6 => ShowsExpiredOnly(pg'[p]) ]_vars

\* an online order made at 0 is still pending at 6, and the page that was
\* opened with its token shows the expired view
C19_Witness ==
  \E p \in Pages :
    /\ now = 6
    /\ ShowsExpiredOnly(pg[p])
    /\ IsSome(pg[p].ref)
    /\ \E i \in FindByToken(orders, Val(pg[p].ref)) :
          /\ orders[i].payment_method = "online"
          /\ orders[i].payment_expires_at = 5
          /\ orders[i].payment_status = "pending"

\* the columns a proof submission may write
ProofColumns == { "payment_proof_url", "payment_proof_submitted_at", "payment_status" }

\* C20: once a row is in the orders table, no step changes any of its columns
\* other than payment_proof_url, payment_proof_submitted_at and
\* payment_status: name, email, phone, address, payment_method and
\* payment_expires_at in particular stay as inserted.
C20_OnlyProofColumnsChange ==
  [][ \A i \in 1..Len(orders) :
        \A c \in (DOMAIN orders[i]) \ ProofColumns :
           orders'[i][c] = orders[i][c] ]_vars

\* C21: a resolution and the passing of the deadline write nothing to the
\* orders table: every step in which the clock moves, a page is opened, a
\* lookup is answered or completed, or a page's expired flag changes leaves
\* every row of the table as it was, and adds none.
C21_ResolveAndExpiryReadOnly ==
  [][ ( \/ now' # now
        \/ \E p \in Pages :
              \/ pg[p].pc = "unmounted" /\ pg'[p].pc # "unmounted"
              \/ pg'[p].fetching # pg[p].fetching
              \/ pg'[p].reply # pg[p].reply
              \/ pg'[p].expired # pg[p].expired )
      => orders' = orders ]_vars

\* the deadline of a pending order has passed, a page that held the order has
\* turned to the expired view on its countdown, and the row is as inserted
C21_Witness ==
  \E p \in Pages :
    /\ pg[p].pc # "unmounted"
    /\ pg[p].expired
    /\ IsSome(pg[p].order)
    /\ now > Val(pg[p].order).payment_expires_at
    /\ LET i == Val(pg[p].order).id IN
       orders[i] = NewOrderRow([co.formData EXCEPT !.name = orders[i].name,
                                                  !.email = orders[i].email,
                                                  !.phone = orders[i].phone,
                                                  !.address = orders[i].address,
                                                  !.paymentMethod = "online"],
                               orders[i].payment_expires_at, SubSeq(orders, 1, i - 1))

C23_ResolvedByTokenOnly ==
  [][ /\ \A p \in Pages :
           /\ ( /\ ~IsSome(pg[p].reply)
                /\ IsSome(pg'[p].reply)
                /\ IsSome(Val(pg'[p].reply).data) )
              => LET d == Val(Val(pg'[p].reply).data) IN
                 /\ d.order_token = Val(pg[p].token)
                 /\ orders[d.id].order_token = Val(pg[p].token)
           /\ ( /\ pg'[p].pc # "unmounted"
                /\ Truthy(pg'[p].ref)
                /\ FindByToken(orders', Val(pg'[p].ref)) = {} )
              => ~IsSome(pg'[p].order)
      /\ \A i \in 1..Len(orders) :
           orders'[i] # orders[i] =>
             \E p \in Pages :
               /\ pg[p].pc = "update"
               /\ Val(pg[p].up).order.id = i
               /\ Val(pg[p].up).order = Val(pg[p].order)
               /\ orders[i].order_token = Val(pg[p].order).order_token ]_vars

\* a page opened with the id of an order that is still within its deadline
\* shows the expired view and holds no order
C23_Witness ==
  \E p \in Pages, i \in 1..Len(orders) :
    /\ pg[p].ref = Some(<< "id", i >>)
    /\ ShowsExpiredOnly(pg[p])
    /\ now <= orders[i].payment_expires_at
    /\ orders[i].payment_method = "online"

\* the fields every notification has to carry
PayloadFields == { "id", "order_token", "name", "email", "payment_method" }

\* C24: every request made to the mail function, for a cash order at its
\* creation and for an online order at its proof submission, carries the
\* order's id, order_token, name, email and payment_method, with the values
\* of the order it is about.
C24_PayloadComplete ==
  \A k \in 1..Len(emails) :
    /\ PayloadFields \subseteq DOMAIN emails[k]
    /\ emails[k].id \in 1..Len(orders)
    /\ emails[k].order_token = orders[emails[k].id].order_token
    /\ emails[k].name = orders[emails[k].id].name
    /\ emails[k].email = orders[emails[k].id].email
    /\ emails[k].payment_method = orders[emails[k].id].payment_method

\* C25: every expiry decision is the predicate now > payment_expires_at: a
\* resolution that found an order sets the expired flag exactly when the
\* page's clock is after the deadline, the countdown sets it only when the
\* clock is after the deadline, and a submission is started only when it is
\* not; at the deadline instant itself all three take the order as unexpired.
C25_ExpiryDecisionsAgree ==
  [][ \A p \in Pages :
        /\ ( /\ IsSome(pg[p].reply)
             /\ ~IsSome(pg'[p].reply)
             /\ pg'[p].pc # "unmounted"
             /\ IsSome(Val(pg[p].reply).data) )
           => ( pg'[p].expired <=>
                  ClientNow(p) > Val(Val(pg[p].reply).data).payment_expires_at )
        /\ ( /\ pg[p].pc # "unmounted"
             /\ pg[p].timer
             /\ ~pg[p].expired
             /\ pg'[p].expired )
           => ClientNow(p) > Val(pg[p].order).payment_expires_at
        /\ ( /\ uploads' # uploads
             /\ pg'[p] # pg[p] )
           => ~(ClientNow(p) > Val(pg[p].order).payment_expires_at) ]_vars

\* C26: a page that holds, from its resolution, an order whose
\* payment_proof_url is present does not offer the upload form: no file can
\* be picked and no upload started there.
C26_NoFormAfterProof ==
  \A p \in Pages :
    ( /\ MainView(p)
      /\ IsSome(Val(pg[p].order).payment_proof_url) )
    => ~UploadFormOffered(p)

\* C27: a page that is opened looks up the ref value when there is a
\* non-empty one, the cached order_token when the ref is absent or empty and
\* a token is cached, and without either shows the expired view at once,
\* making no lookup; the token of a lookup under way is not replaced, and a
\* lookup that found no row ends the resolution in the expired view, with no
\* second lookup started.
C27_TokenFromRefElseCache ==
  [][ \A p \in Pages :
        /\ ( pg[p].pc = "unmounted" /\ pg'[p].pc # "unmounted" )
           => LET ref == pg'[p].ref
                  cached == CachedToken(p)' IN
              /\ Truthy(ref) => pg'[p].fetching /\ pg'[p].token = ref
              /\ (~Truthy(ref) /\ Truthy(cached))
                   => pg'[p].fetching /\ pg'[p].token = cached
              /\ (~Truthy(ref) /\ ~Truthy(cached))
                   => ShowsExpiredOnly(pg'[p]) /\ ~IsSome(pg'[p].token)
        /\ ( pg[p].fetching /\ pg'[p].fetching ) => pg'[p].token = pg[p].token
        /\ ( /\ IsSome(pg[p].reply)
             /\ ~IsSome(Val(pg[p].reply).data)
             /\ ~IsSome(pg'[p].reply)
             /\ pg'[p].pc # "unmounted" )
           => ShowsExpiredOnly(pg'[p]) ]_vars

\* the checkout's tab, opened again at a bare ?ref=, holds the order it found
\* with the cached token
C27_Witness ==
  /\ pg[1].ref = EmptyRef
  /\ MainView(1)
  /\ ~pg[1].fetching
  /\ Some(Val(pg[1].order).order_token) = localStorage

\* row i was written by a submission whose order_items insert failed
HalfWritten(i) ==
  /\ i \in 1..Len(orders)
  /\ i \notin order_items
  /\ ~(co.pc = "items" /\ co.id = i)

\* row i has reached the buyer: its token is cached, shown by the placed view,
\* or in use on a payment page
Handed(i) ==
  \/ localStorage = Some(orders[i].order_token)
  \/ co.success /\ co.orderToken = Some(orders[i].order_token)
  \/ \E p \in Pages :
        /\ pg[p].pc # "unmounted"
        /\ \/ pg[p].ref = Some(orders[i].order_token)
           \/ pg[p].token = Some(orders[i].order_token)
           \/ IsSome(pg[p].order) /\ Val(pg[p].order).id = i

\* C28: a row whose order_items insert failed stays as it was inserted, is
\* never handed to the buyer, and gets no proof, no paid status and no
\* notification; every later submission adds a row of its own, with a token
\* unlike that row's.
C28_RetryLeavesHalfWrittenRow ==
  [][ \A i \in 1..Len(orders') :
        HalfWritten(i)' =>
          /\ orders'[i] = orders[i]
          /\ ~Handed(i)'
          /\ orders'[i].payment_status = "pending"
          /\ ~IsSome(orders'[i].payment_proof_url)
          /\ \A k \in 1..Len(emails') : emails'[k].id # i
          /\ Len(orders') > Len(orders) =>
                orders'[Len(orders')].order_token # orders[i].order_token ]_vars

\* the first submission lost its line items; the retry made a second order,
\* which was paid from the payment page, and the first row is as inserted
C28_Witness ==
  /\ Len(orders) = 2
  /\ order_items = {2}
  /\ orders[2].payment_status = "paid"
  /\ IsSome(orders[2].payment_proof_url)
  /\ orders[1].payment_status = "pending"
  /\ ~IsSome(orders[1].payment_proof_url)
  /\ co.pc = "form"

\* C29: every object put in the bucket is stored under the key made of the
\* directory payment-proofs, the token of the order of the page that uploads,
\* that page's clock at the upload and the file's extension; no two objects
\* share a key, so two objects of one order stored at different times have
\* different keys; and an object once stored stays as it was stored: no later
\* upload removes or replaces it.
C29_KeyPerSubmission ==
  [][ /\ \A b \in blobs' \ blobs :
           \E p \in Pages :
             /\ pg[p].pc = "idle"
             /\ pg'[p].pc = "update"
             /\ b.file = Val(pg[p].selectedFile)
             /\ b.path = [dir |-> "payment-proofs",
                          token |-> Val(pg[p].order).order_token,
                          stamp |-> ClientNow(p),
                          ext |-> FileExt(Val(pg[p].selectedFile))]
      /\ \A a \in blobs', b \in blobs' : a.path = b.path => a = b
      /\ blobs \subseteq blobs' ]_vars

\* two proofs of one order are in the bucket, stored at different times
C29_Witness ==
  \E a \in blobs, b \in blobs :
    /\ a.path.token = b.path.token
    /\ a.path.stamp # b.path.stamp
    /\ a.call < b.call

\* the message the catch block of the later page's uploadProof sets
LaterFailure == "Failed to upload payment proof"

\* C30: on the later page one upload call goes through its steps in order,
\* one at a time: the order update is requested only by the step in which the
\* storage upload returned, the notification only by the step in which the
\* order update returned, and success is shown only by the step in which the
\* notification request returned, with no failure message.  The step in
\* which the failure message is set ends the call without success, and no
\* later step of the call has run: nothing was written to the order if the
\* call ended before the update returned, nothing sent if it ended before
\* the notification.
C30_UploadStepsInOrder ==
  [][ \A p \in Pages :
        pg[p].variant = "later" /\ pg'[p].variant = "later" =>
          /\ (pg[p].pc # "update" /\ pg'[p].pc = "update")
               => pg[p].pc = "idle" /\ uploads' = uploads + 1
                  /\ orders' = orders /\ emails' = emails
          /\ (pg[p].pc # "notify" /\ pg'[p].pc = "notify")
               => pg[p].pc = "update" /\ emails' = emails
          /\ (~pg[p].success /\ pg'[p].success)
               => /\ pg[p].pc = "notify"
                  /\ pg'[p].pc = "idle"
                  /\ pg'[p].uploadError # LaterFailure
                  /\ emails' = Append(emails, OnlineMail(Val(pg[p].up).order))
          /\ ( \/ pg[p].uploadError # LaterFailure /\ pg'[p].uploadError = LaterFailure
               \/ InFlight(p) /\ pg'[p].pc = "idle" /\ ~pg'[p].success
               \/ /\ pg[p].pc = "idle" /\ pg'[p].pc = "idle"
                  /\ uploads' # uploads /\ pg'[p] # pg[p] )
               => /\ pg'[p].pc = "idle"
                  /\ pg'[p].uploadError = LaterFailure
                  /\ ~pg'[p].uploading
                  /\ ~pg'[p].success
                  /\ pg[p].pc \in {"idle", "update"}
                       => orders' = orders /\ emails' = emails
                  /\ pg[p].pc = "notify" => orders' = orders ]_vars

\* the order update of a call on the later page was rejected: the page shows
\* the failure message, the file is in the bucket, the order is unpaid and
\* nothing was sent
C30_Witness ==
  \E p \in Pages :
    /\ pg[p].variant = "later"
    /\ pg[p].pc = "idle"
    /\ pg[p].uploadError = LaterFailure
    /\ ~pg[p].success
    /\ blobs # {}
    /\ emails = << >>
    /\ \A i \in 1..Len(orders) : orders[i].payment_status = "pending"

\* C31: a page that displays a resolved order when its clock has reached the
\* order's payment_expires_at is switched to the expired view by the
\* countdown, unless it is left first; this is so whether or not proof was
\* submitted, the order was paid or the success indicator is shown.
C31_CountdownExpiresPage ==
  \A p \in Pages :
    ( /\ MainView(p)
      /\ ClientNow(p) >= Val(pg[p].order).payment_expires_at )
    ~> ( pg[p].pc = "unmounted" \/ Screen(pg[p]) = "expired" )

\* a page on which the proof was submitted with success, for an order now
\* paid, shows the expired view after the deadline
C31_Witness ==
  \E p \in Pages :
    /\ pg[p].pc # "unmounted"
    /\ pg[p].success
    /\ IsSome(pg[p].order)
    /\ orders[Val(pg[p].order).id].payment_status = "paid"
    /\ Screen(pg[p]) = "expired"
    /\ now >= Val(pg[p].order).payment_expires_at

\* C32: on a mounted page the expired flag, once set, stays set for as long
\* as the page stays mounted, and the page shows the expired view throughout,
\* whatever is fetched or picked afterwards.
C32_ExpiredAbsorbing ==
  [][ \A p \in Pages :
        ( /\ pg[p].pc # "unmounted"
          /\ pg[p].expired
          /\ pg'[p].pc # "unmounted" )
        => /\ pg'[p].expired
           /\ Screen(pg'[p]) = "expired" ]_vars

\* a page in the expired view whose query string now names an order that is
\* still before its deadline, and which holds that order, fetched anew
C32_Witness ==
  \E p \in Pages :
    /\ pg[p].pc # "unmounted"
    /\ Screen(pg[p]) = "expired"
    /\ ~pg[p].fetching
    /\ IsSome(pg[p].order)
    /\ pg[p].ref = Some(Val(pg[p].order).order_token)
    /\ ClientNow(p) < Val(pg[p].order).payment_expires_at

\* the upload button: disabled while an upload runs or no file is selected
UploadDisabled(page) == page.uploading \/ ~IsSome(page.selectedFile)

\* C33: proof uploads of one page never overlap. While uploading is set the
\* upload button is disabled and no upload can start on that page; and a step
\* that starts an upload is taken only by a page that is not uploading, has
\* resolved an order and holds a file that passed validation.
C33_UploadsNeverOverlap ==
  [][ \A p \in Pages :
        /\ pg[p].uploading =>
              /\ UploadDisabled(pg[p])
              /\ \A o \in AwaitOutcomes : ~ENABLED UploadStart(p, o)
        /\ (uploads' # uploads /\ pg'[p] # pg[p]) =>
              /\ ~pg[p].uploading
              /\ ~UploadDisabled(pg[p])
              /\ IsSome(pg[p].order)
              /\ IsImage(Val(pg[p].selectedFile))
              /\ ~TooBig(Val(pg[p].selectedFile)) ]_vars

\* a later page whose upload is under way took a rejected pick meanwhile: its
\* file input stays active, its button does not
C33_Witness ==
  \E p \in Pages :
    /\ pg[p].uploading
    /\ pg[p].pc = "notify"
    /\ IsSome(pg[p].selectedFile)
    /\ pg[p].uploadError = "Only image files allowed"
    /\ UploadDisabled(pg[p])

\* C34: when every awaited request settles, every upload call ends with
\* uploading cleared and every checkout submission ends with loading cleared,
\* whichever way its requests end.
C34_HandlersReturn ==
  /\ \A p \in Pages :
        pg[p].uploading ~> (~pg[p].uploading /\ pg[p].pc \in {"idle", "unmounted"})
  /\ co.loading ~> (~co.loading /\ co.pc = "form")

\* a checkout submission ended in its catch block and, later, an upload did
C34_Witness ==
  /\ co.error = "Something went wrong."
  /\ ~co.loading
  /\ \E p \in Pages :
        /\ pg[p].pc = "idle"
        /\ ~pg[p].uploading
        /\ pg[p].uploadError \in { "Failed to upload payment proof",
                                   "Failed to upload payment proof. Please try again." }

\* C35: a handleUploadProof call of the Payment.tsx page that ends, ends
\* without a notification and with payment_status of every order as it was;
\* when it ends in success it has written the proof URL, the submission time,
\* order_confirmed and confirmed_at of its order and nothing else, and the
\* order is still pending.
C35_TsxWritesNoStatusNoMail ==
  [][ \A p \in Pages :
        ( /\ pg[p].variant = "tsx"
          /\ pg[p].pc = "update"
          /\ pg'[p].pc # "update" )
        => /\ emails' = emails
           /\ \A i \in 1..Len(orders) :
                 orders'[i].payment_status = orders[i].payment_status
           /\ pg'[p].success =>
                 LET up == Val(pg[p].up)
                     id == up.order.id IN
                 /\ orders' = [orders EXCEPT ![id] =
                       [orders[id] EXCEPT !.payment_proof_url = Some(up.url),
                                          !.payment_proof_submitted_at = Some(up.at),
                                          !.order_confirmed = TRUE,
                                          !.confirmed_at = Some(up.at)]]
                 /\ orders'[id].payment_status = "pending" ]_vars

\* a Payment.tsx page shows its proof accepted: the order carries the proof
\* and the confirmation, is pending, and no notification names it
C35_Witness ==
  \E p \in Pages :
    /\ pg[p].variant = "tsx"
    /\ pg[p].success
    /\ LET id == Val(pg[p].order).id IN
       /\ orders[id].payment_proof_url = Val(pg[p].order).payment_proof_url
       /\ IsSome(orders[id].payment_proof_url)
       /\ orders[id].order_confirmed
       /\ orders[id].payment_status = "pending"
       /\ OnlineMails(emails, id) = {}

\* the messages of a pick that failed validation
LaterRejections == { "Only image files allowed", "Max file size is 5MB" }
TsxRejections == { "File size must be less than 5MB", "Please select an image file" }

\* C36: on the later page a pick that fails validation sets its message and
\* leaves the selection as it was, and a file selected before can be uploaded
\* while the message is shown; on the Payment.tsx page no file is selected
\* while such a message is shown; on both pages a selected file is an image
\* within the size limit.
C36_RejectedPickAndSelection ==
  [][ \A p \in Pages :
        /\ ( /\ pg[p].variant = "later"
             /\ pg[p].pc # "unmounted"
             /\ pg'[p].uploadError \in LaterRejections
             /\ pg'[p].uploadError # pg[p].uploadError )
           => pg'[p].selectedFile = pg[p].selectedFile
        /\ ( /\ pg[p].variant = "later"
             /\ pg[p].uploadError \in LaterRejections
             /\ IsSome(pg[p].selectedFile)
             /\ UploadFormOffered(p)
             /\ ~pg[p].uploading
             /\ uploads < MaxUploads )
           => ENABLED UploadStart(p, "ok")
        /\ ( /\ pg[p].variant = "tsx"
             /\ pg[p].uploadError \in TsxRejections )
           => ~IsSome(pg[p].selectedFile)
        /\ IsSome(pg[p].selectedFile) =>
             /\ IsImage(Val(pg[p].selectedFile))
             /\ ~TooBig(Val(pg[p].selectedFile)) ]_vars

\* the later page shows the message of a pick that was too large, still holds
\* the image selected before it and offers its upload
C36_Witness ==
  \E p \in Pages :
    /\ pg[p].variant = "later"
    /\ pg[p].uploadError = "Max file size is 5MB"
    /\ pg[p].selectedFile = Some(GoodFile)
    /\ UploadFormOffered(p)
    /\ ~UploadDisabled(pg[p])

====
